---- MODULE Spec2Model ----
(***************************************************************************)
(* Model of bevy_asset's filesystem asset I/O (io/file/mod.rs and          *)
(* io/file/file_asset.rs): the FileAssetReader with its descriptor_counter *)
(* semaphore and SemaphoreFile handles, and the FileAssetWriter, acting on *)
(* a filesystem tree under root_path.                                      *)
(*                                                                         *)
(* A file name is a sequence of its dot-separated parts (<<"b","png">> is  *)
(* "b.png"), a path is a sequence of names.  Paths are normalised: no "."  *)
(* or ".." components, and asset paths are relative.                       *)
(***************************************************************************)
EXTENDS Integers, Sequences, FiniteSets, TLC

VARIABLES
    descriptor_counter, \* permits the semaphore has left to give
    pc,                 \* per reader task: position in its current call
    call,               \* per reader task: the call in progress, or the last one
    result,             \* per reader task: what the last call returned
    held,               \* per reader task: the SemaphoreFile handles it owns
    fs,                 \* the directory tree: absolute path -> node
    wpc,                \* the writer's caller: position in its current call
    wcall,              \* the writer call in progress, or the last one
    wresult,            \* what the last writer call returned
    wh,                 \* the Box<Writer> the writer's caller holds, if any
    stream,             \* per reader task: what its last read_directory returned
    seeked,             \* per reader task: what its last poll_seek_forward returned
    file                \* per reader task: the position of a plain File it owns

\* what the reader's calls leave alone
env == <<fs, wpc, wcall, wresult, wh>>

\* what the callers hold besides their SemaphoreFile handles
caller == <<stream, seeked, file>>

vars == <<descriptor_counter, pc, call, result, held, env, caller>>

-----------------------------------------------------------------------------
(* Bounds of the model. *)

\* Semaphore::new(FILE_LIMIT): 256, 1024 or 2559 in the source, scaled down.
FILE_LIMIT == 2
NumTasks == 3
\* bytes written through one writer
MaxData == 1
\* width of a seek offset: u64 and i64 in the source, scaled down
OffsetBits == 3

Tasks == 1..NumTasks

-----------------------------------------------------------------------------
(* Paths. *)

Root == << <<"assets">> >>

A_PNG == <<"a", "png">>
C_PNG == <<"c", "png">>
X_PNG == <<"x", "png">>
B_PNG == <<"b", "png">>
D == <<"d">>
Q == <<"q">>

\* root_path.join(path), path relative
FullPath(p) == Root \o p

Parent(p) == SubSeq(p, 1, Len(p) - 1)

IsPrefix(p, q) == Len(p) <= Len(q) /\ SubSeq(q, 1, Len(p)) = p

\* get_meta_path: ".meta" appended to the final segment
MetaName(n) == Append(n, "meta")
MetaPath(p) ==
    IF p = <<>> THEN p
    ELSE Append(Parent(p), MetaName(p[Len(p)]))

-----------------------------------------------------------------------------
(* The filesystem the calls act on. *)

\* a node: its type, whether it can be opened ("-": no permission), its bytes
DirNode == [kind |-> "dir", mode |-> "r", data |-> <<>>]
FileNode(d) == [kind |-> "file", mode |-> "r", data |-> d]
LockedNode(d) == [kind |-> "file", mode |-> "-", data |-> d]

\* Path resolution: "ENOTDIR" when a proper prefix is not a directory,
\* "ENOENT" when the entry is absent, "OK" otherwise.
Resolve(f, p) ==
    IF \E k \in 1..(Len(p) - 1) :
          /\ SubSeq(p, 1, k) \in DOMAIN f
          /\ f[SubSeq(p, 1, k)].kind # "dir"
    THEN "ENOTDIR"
    ELSE IF p \notin DOMAIN f THEN "ENOENT" ELSE "OK"

\* File::open(&full_path): the io::ErrorKind values (or "Ok") it can end with.
\* A path below a regular file is NotADirectory on Unix and NotFound on
\* Windows; a directory opens on Unix and is denied on Windows.
OpenKinds(f, p) ==
    CASE Resolve(f, p) = "ENOENT" -> {"NotFound"}
      [] Resolve(f, p) = "ENOTDIR" -> {"NotADirectory", "NotFound"}
      [] OTHER ->
            IF f[p].mode = "-" THEN {"PermissionDenied"}
            ELSE IF f[p].kind = "dir" THEN {"Ok", "PermissionDenied"}
            ELSE {"Ok"}

\* full_path.metadata(): "Err" or the file type
Metadata(f, p) ==
    IF Resolve(f, p) = "OK" THEN f[p].kind ELSE "Err"

\* Path::extension: the part after the last dot, "" (None) when the name has
\* no dot or begins with its only dot
Extension(n) ==
    IF Len(n) >= 2 /\ ~(Len(n) = 2 /\ n[1] = "") THEN n[Len(n)] ELSE ""

\* the spellings of "meta" the model's names use
MetaSpellings == {"meta", "META", "Meta", "mEtA"}

EqIgnoreAsciiCase(a, b) ==
    \/ a = b
    \/ {a, b} \subseteq MetaSpellings

\* the entries read_dir(full_path) goes through
Entries(f, full_path) ==
    {x \in DOMAIN f : Len(x) = Len(full_path) + 1 /\ IsPrefix(full_path, x)}

\* a filter that lets every entry through
ListedAll(x) == TRUE

\* the filter of read_directory: an entry with the extension meta is left out
Listed(x) == ~EqIgnoreAsciiCase(Extension(x[Len(x)]), "meta")

\* path.strip_prefix(&root_path)
StripRoot(x) == SubSeq(x, Len(Root) + 1, Len(x))

\* read_directory: the paths, relative to Root, of the entries of the
\* directory at p, the sidecar files left out
ReadDirectory(f, p) ==
    {StripRoot(q) : q \in {x \in Entries(f, FullPath(p)) : Listed(x)}}

\* the orders in which read_dir can yield the entries S, each once
Orderings(S) ==
    {o \in [1..Cardinality(S) -> S] : \A i, j \in 1..Cardinality(S) : o[i] = o[j] => i = j}

\* filter_map over the entries in the order read_dir yields them
FilterMap(o) ==
    LET kept == SelectSeq(o, Listed) IN [i \in 1..Len(kept) |-> StripRoot(kept[i])]

\* read_dir(&full_path): the io::ErrorKind values (or "Ok") it can end with
ReadDirKinds(f, p) ==
    CASE Resolve(f, p) = "ENOENT" -> {"NotFound"}
      [] Resolve(f, p) = "ENOTDIR" -> {"NotADirectory", "NotFound"}
      [] OTHER -> IF f[p].kind = "dir" THEN {"Ok"} ELSE {"NotADirectory"}

-----------------------------------------------------------------------------
(* The filesystem calls of the writer (async_fs over std::fs).  Each yields *)
(* an error kind ("" for success) and the tree after it.  The base path     *)
(* above Root exists.                                                       *)

Prefixes(p) == {SubSeq(p, 1, k) : k \in 1..Len(p)}
Below(f, p) == {q \in DOMAIN f : IsPrefix(p, q) /\ q # p}
Without(f, S) == [q \in DOMAIN f \ S |-> f[q]]
DirExists(f, p) == p = <<>> \/ (p \in DOMAIN f /\ f[p].kind = "dir")

ResolveErr(f, p) == IF Resolve(f, p) = "ENOTDIR" THEN "NotADirectory" ELSE "NotFound"

\* create_dir_all(p): every missing prefix becomes a directory; an existing
\* prefix that is no directory fails the call before anything is created
CreateDirAll(f, p) ==
    IF \E q \in Prefixes(p) : q \in DOMAIN f /\ f[q].kind # "dir"
    THEN [err |-> IF p \in DOMAIN f THEN "AlreadyExists" ELSE "NotADirectory", fs |-> f]
    ELSE [err |-> "",
          fs |-> [q \in DOMAIN f \cup Prefixes(p) |->
                    IF q \in DOMAIN f THEN f[q] ELSE DirNode]]

\* File::create(p): create or truncate
FileCreate(f, p) ==
    CASE Resolve(f, p) = "ENOTDIR" -> [err |-> "NotADirectory", fs |-> f]
      [] Resolve(f, p) = "ENOENT" ->
            IF DirExists(f, Parent(p))
            THEN [err |-> "", fs |-> f @@ (p :> FileNode(<<>>))]
            ELSE [err |-> "NotFound", fs |-> f]
      [] OTHER ->
            IF f[p].kind = "dir" THEN [err |-> "IsADirectory", fs |-> f]
            ELSE IF f[p].mode = "-" THEN [err |-> "PermissionDenied", fs |-> f]
            ELSE [err |-> "", fs |-> [f EXCEPT ![p].data = <<>>]]

\* remove_file(p)
RemoveFile(f, p) ==
    IF Resolve(f, p) # "OK" THEN [err |-> ResolveErr(f, p), fs |-> f]
    ELSE IF f[p].kind = "dir" THEN [err |-> "IsADirectory", fs |-> f]
    ELSE [err |-> "", fs |-> Without(f, {p})]

\* a rename that links the new path and leaves the old one in place
RenamePathKeepsOld(f, old, new) ==
    IF Resolve(f, old) # "OK" THEN [err |-> ResolveErr(f, old), fs |-> f]
    ELSE IF ~DirExists(f, Parent(new)) THEN [err |-> ResolveErr(f, new), fs |-> f]
    ELSE [err |-> "", fs |-> (new :> f[old]) @@ f]

\* rename(old, new): a file replaces a file, a directory moves with all below
\* it onto nothing or onto an empty directory
RenamePath(f, old, new) ==
    LET fail(e) == [err |-> e, fs |-> f]
        sub == {old} \cup Below(f, old)
        Move(q) == new \o SubSeq(q, Len(old) + 1, Len(q))
    IN
    IF Resolve(f, old) # "OK" THEN fail(ResolveErr(f, old))
    ELSE IF ~DirExists(f, Parent(new)) THEN fail(ResolveErr(f, new))
    ELSE IF old = new THEN [err |-> "", fs |-> f]
    ELSE IF f[old].kind = "file"
    THEN IF new \in DOMAIN f /\ f[new].kind = "dir" THEN fail("IsADirectory")
         ELSE [err |-> "",
               fs |-> [q \in (DOMAIN f \ {old}) \cup {new} |->
                         IF q = new THEN f[old] ELSE f[q]]]
    ELSE IF IsPrefix(old, new) THEN fail("InvalidInput")
    ELSE IF new \in DOMAIN f /\ f[new].kind = "file" THEN fail("NotADirectory")
    ELSE IF Below(f, new) # {} THEN fail("DirectoryNotEmpty")
    ELSE [err |-> "",
          fs |-> [q \in (DOMAIN f \ sub) \cup {Move(x) : x \in sub} |->
                    IF \E x \in sub : Move(x) = q
                    THEN f[CHOOSE x \in sub : Move(x) = q]
                    ELSE f[q]]]

\* remove_dir_all(p)
RemoveDirAll(f, p) ==
    IF Resolve(f, p) # "OK" THEN [err |-> ResolveErr(f, p), fs |-> f]
    ELSE IF f[p].kind # "dir" THEN [err |-> "NotADirectory", fs |-> f]
    ELSE [err |-> "", fs |-> Without(f, {p} \cup Below(f, p))]

\* remove_dir(p)
RemoveDir(f, p) ==
    IF Resolve(f, p) # "OK" THEN [err |-> ResolveErr(f, p), fs |-> f]
    ELSE IF f[p].kind # "dir" THEN [err |-> "NotADirectory", fs |-> f]
    ELSE IF Below(f, p) # {} THEN [err |-> "DirectoryNotEmpty", fs |-> f]
    ELSE [err |-> "", fs |-> Without(f, {p})]

-----------------------------------------------------------------------------
(* Results of the reader's calls. *)

NoResult == [kind |-> "None", path |-> <<>>, err |-> "", val |-> FALSE]
OkHandle(p) == [kind |-> "Ok", path |-> p, err |-> "", val |-> FALSE]
NotFound(p) == [kind |-> "NotFound", path |-> p, err |-> "", val |-> FALSE]
Io(e) == [kind |-> "Io", path |-> <<>>, err |-> e, val |-> FALSE]
OkBool(b) == [kind |-> "Bool", path |-> <<>>, err |-> "", val |-> b]
\* the call's future was dropped while at position `at`
Cancelled(at) == [kind |-> "Cancelled", path |-> <<>>, err |-> at, val |-> FALSE]

\* the map_err closure of read and read_meta
MapOpenErr(e, full_path) ==
    IF e = "NotFound" THEN NotFound(full_path) ELSE Io(e)

\* the path read / read_meta open
OpenTarget(c) ==
    IF c.op = "read_meta" THEN FullPath(MetaPath(c.path)) ELSE FullPath(c.path)

\* a SemaphoreFile: the file it is open on and the bytes a read of it yields,
\* those of the file when it was opened (the read follows the open at once)
SemaphoreFile(f, p) == [path |-> p, data |-> f[p].data, pos |-> 0]

NoCall == [op |-> "none", path |-> <<>>]

\* results of the writer's calls: Ok(..) or AssetWriterError::Io
WNone == [kind |-> "None", err |-> ""]
WOk == [kind |-> "Ok", err |-> ""]
WIo(e) == [kind |-> "Io", err |-> e]

NoWCall == [op |-> "none", path |-> <<>>, to |-> <<>>]
NoWriter == [path |-> <<>>, buf |-> <<>>]

WriterIdle ==
    /\ wpc = "idle"
    /\ wcall = NoWCall
    /\ wresult = WNone
    /\ wh = NoWriter

\* read_directory: not called yet, the paths of the stream, or the error
NoStream == [kind |-> "None", path |-> <<>>, err |-> "", items |-> <<>>]
OkStream(items) == [kind |-> "Ok", path |-> <<>>, err |-> "", items |-> items]
StreamNotFound(p) == [kind |-> "NotFound", path |-> p, err |-> "", items |-> <<>>]
StreamIo(e) == [kind |-> "Io", path |-> <<>>, err |-> e, items |-> <<>>]

\* poll_seek_forward: not called yet, Ok(position), or Err(kind)
NoSeek == [kind |-> "None", pos |-> 0, err |-> ""]
SeekOk(n) == [kind |-> "Ok", pos |-> n, err |-> ""]
SeekErr(e) == [kind |-> "Err", pos |-> 0, err |-> e]

CallerIdle ==
    /\ stream = [t \in Tasks |-> NoStream]
    /\ seeked = [t \in Tasks |-> NoSeek]
    /\ file = [t \in Tasks |-> 0]

\* what reading the handle to its end yields
Content(h) == h.data

-----------------------------------------------------------------------------
(* The tree the reader runs against. *)

InitFs ==
    (Root :> DirNode)
    @@ (FullPath(<<A_PNG>>) :> FileNode(<<1>>))
    @@ (FullPath(<<MetaName(A_PNG)>>) :> FileNode(<<2>>))
    @@ (FullPath(<<X_PNG>>) :> LockedNode(<<3>>))
    @@ (FullPath(<<D>>) :> DirNode)
    @@ (FullPath(<<D, B_PNG>>) :> FileNode(<<4>>))

Call(op, p) == [op |-> op, path |-> p]

\* the calls of the concurrent readers: a file, a missing file, an unreadable
\* file, a sidecar, a directory query
Calls ==
    {Call("read", <<A_PNG>>), Call("read", <<C_PNG>>), Call("read", <<X_PNG>>),
     Call("read_meta", <<A_PNG>>), Call("is_directory", <<D>>)}

Init ==
    /\ descriptor_counter = FILE_LIMIT
    /\ pc = [t \in Tasks |-> "idle"]
    /\ call = [t \in Tasks |-> NoCall]
    /\ result = [t \in Tasks |-> NoResult]
    /\ held = [t \in Tasks |-> <<>>]
    /\ fs = InitFs
    /\ WriterIdle
    /\ CallerIdle

-----------------------------------------------------------------------------
(* FileAssetReader. *)

\* a task invokes read, read_meta or is_directory
Invoke(t, c) ==
    /\ pc[t] = "idle"
    /\ pc' = [pc EXCEPT ![t] = "acquire"]
    /\ call' = [call EXCEPT ![t] = c]
    /\ result' = [result EXCEPT ![t] = NoResult]
    /\ UNCHANGED <<caller, descriptor_counter, held, env>>

\* a caller that holds no handle invokes read, read_meta or is_directory
StartCall(t, c) ==
    /\ held[t] = <<>>
    /\ Invoke(t, c)

\* a caller that keeps the handle of its read_meta(p) invokes read(p)
NestedRead(t) ==
    /\ Len(held[t]) = 1
    /\ call[t].op = "read_meta"
    /\ Invoke(t, Call("read", call[t].path))

\* Acquire with a semaphore that admits a caller when no permit is left
AcquireNoWait(t) ==
    /\ pc[t] = "acquire"
    /\ descriptor_counter' = descriptor_counter - 1
    /\ pc' = [pc EXCEPT ![t] = IF call[t].op = "is_directory" THEN "stat" ELSE "open"]
    /\ UNCHANGED <<caller, call, result, held, env>>

\* self.descriptor_counter.acquire().await completes
Acquire(t) ==
    /\ pc[t] = "acquire"
    /\ descriptor_counter > 0
    /\ descriptor_counter' = descriptor_counter - 1
    /\ pc' = [pc EXCEPT ![t] = IF call[t].op = "is_directory" THEN "stat" ELSE "open"]
    /\ UNCHANGED <<caller, call, result, held, env>>

\* OpenOk with the guard dropped at the return instead of moved into the handle
OpenOkGuardDropped(t, full_path) ==
    /\ held' = [held EXCEPT ![t] = Append(@, SemaphoreFile(fs, full_path))]
    /\ result' = [result EXCEPT ![t] = OkHandle(full_path)]
    /\ descriptor_counter' = descriptor_counter + 1

\* Ok(SemaphoreFile { _semaphore: guard, file }): the guard moves into the handle
OpenOk(t, full_path) ==
    /\ held' = [held EXCEPT ![t] = Append(@, SemaphoreFile(fs, full_path))]
    /\ result' = [result EXCEPT ![t] = OkHandle(full_path)]
    /\ UNCHANGED descriptor_counter

\* OpenErr with the guard forgotten on the error path
OpenErrLeak(t, e, full_path) ==
    /\ result' = [result EXCEPT ![t] = MapOpenErr(e, full_path)]
    /\ UNCHANGED <<caller, descriptor_counter, held>>

\* file? returns the mapped error; guard goes out of scope
OpenErr(t, e, full_path) ==
    /\ result' = [result EXCEPT ![t] = MapOpenErr(e, full_path)]
    /\ descriptor_counter' = descriptor_counter + 1
    /\ UNCHANGED held

\* File::open(&full_path).await completes and read / read_meta returns
Open(t) ==
    /\ pc[t] = "open"
    /\ LET full_path == OpenTarget(call[t]) IN
       \E k \in OpenKinds(fs, full_path) :
          IF k = "Ok" THEN OpenOk(t, full_path) ELSE OpenErr(t, k, full_path)
    /\ pc' = [pc EXCEPT ![t] = "idle"]
    /\ UNCHANGED <<caller, call, env>>

\* Stat with the guard kept beyond the return
StatKeepsPermit(t) ==
    /\ pc[t] = "stat"
    /\ LET m == Metadata(fs, FullPath(call[t].path)) IN
       result' = [result EXCEPT ![t] =
                     IF m = "Err" THEN NotFound(call[t].path) ELSE OkBool(m = "dir")]
    /\ pc' = [pc EXCEPT ![t] = "idle"]
    /\ UNCHANGED <<caller, descriptor_counter, call, held, env>>

\* Stat with the error built like the one of read: absolute path, other
\* failures passed on
StatLikeRead(t) ==
    /\ pc[t] = "stat"
    /\ LET m == Metadata(fs, FullPath(call[t].path)) IN
       result' = [result EXCEPT ![t] =
                     IF m = "Err"
                     THEN MapOpenErr(ResolveErr(fs, FullPath(call[t].path)),
                                     FullPath(call[t].path))
                     ELSE OkBool(m = "dir")]
    /\ descriptor_counter' = descriptor_counter + 1
    /\ pc' = [pc EXCEPT ![t] = "idle"]
    /\ UNCHANGED <<caller, call, held, env>>

\* is_directory after its acquire: metadata(), the answer, _guard dropped
Stat(t) ==
    /\ pc[t] = "stat"
    /\ LET m == Metadata(fs, FullPath(call[t].path)) IN
       result' = [result EXCEPT ![t] =
                     IF m = "Err" THEN NotFound(call[t].path) ELSE OkBool(m = "dir")]
    /\ descriptor_counter' = descriptor_counter + 1
    /\ pc' = [pc EXCEPT ![t] = "idle"]
    /\ UNCHANGED <<caller, call, held, env>>

\* Cancel with the guard of a call cancelled during its open never released
CancelLeak(t) ==
    /\ pc[t] \in {"acquire", "open"}
    /\ pc' = [pc EXCEPT ![t] = "idle"]
    /\ result' = [result EXCEPT ![t] = Cancelled(pc[t])]
    /\ UNCHANGED <<caller, descriptor_counter, call, held, env>>

\* the caller drops the future of a pending call: a guard it holds is dropped
Cancel(t) ==
    /\ pc[t] \in {"acquire", "open"}
    /\ descriptor_counter' =
          IF pc[t] = "open" THEN descriptor_counter + 1 ELSE descriptor_counter
    /\ pc' = [pc EXCEPT ![t] = "idle"]
    /\ result' = [result EXCEPT ![t] = Cancelled(pc[t])]
    /\ UNCHANGED <<caller, call, held, env>>

RemoveAt(s, i) == SubSeq(s, 1, i - 1) \o SubSeq(s, i + 1, Len(s))

\* DropHandle with the handle's permit never given back
DropHandleLeak(t, i) ==
    /\ i \in 1..Len(held[t])
    /\ held' = [held EXCEPT ![t] = RemoveAt(@, i)]
    /\ UNCHANGED <<caller, descriptor_counter, pc, call, result, env>>

\* the caller drops a SemaphoreFile: the file closes, _semaphore is released
DropHandle(t, i) ==
    /\ i \in 1..Len(held[t])
    /\ held' = [held EXCEPT ![t] = RemoveAt(@, i)]
    /\ descriptor_counter' = descriptor_counter + 1
    /\ UNCHANGED <<caller, pc, call, result, env>>

\* a caller that has got the handle of read(p) while keeping the one of
\* read_meta(p) drops its handles, one at a time
NestedDrop(t) ==
    /\ pc[t] = "idle"
    /\ call[t].op = "read"
    /\ DropHandle(t, 1)

\* read_directory gated by the semaphore like is_directory
ReadDirectoryCallGated(t, p) ==
    /\ pc[t] = "idle"
    /\ descriptor_counter > 0
    /\ call' = [call EXCEPT ![t] = Call("read_directory", p)]
    /\ result' = [result EXCEPT ![t] = NoResult]
    /\ \E k \in ReadDirKinds(fs, FullPath(p)) :
          IF k = "Ok"
          THEN \E o \in Orderings(Entries(fs, FullPath(p))) :
                  stream' = [stream EXCEPT ![t] = OkStream(FilterMap(o))]
          ELSE IF k = "NotFound"
          THEN stream' = [stream EXCEPT ![t] = StreamNotFound(FullPath(p))]
          ELSE stream' = [stream EXCEPT ![t] = StreamIo(k)]
    /\ UNCHANGED <<descriptor_counter, pc, held, env, seeked, file>>

\* read_directory: no permit is taken; the stream is taken to be read at once
ReadDirectoryCall(t, p) ==
    /\ pc[t] = "idle"
    /\ call' = [call EXCEPT ![t] = Call("read_directory", p)]
    /\ result' = [result EXCEPT ![t] = NoResult]
    /\ \E k \in ReadDirKinds(fs, FullPath(p)) :
          IF k = "Ok"
          THEN \E o \in Orderings(Entries(fs, FullPath(p))) :
                  stream' = [stream EXCEPT ![t] = OkStream(FilterMap(o))]
          ELSE IF k = "NotFound"
          THEN stream' = [stream EXCEPT ![t] = StreamNotFound(FullPath(p))]
          ELSE stream' = [stream EXCEPT ![t] = StreamIo(k)]
    /\ UNCHANGED <<descriptor_counter, pc, held, env, seeked, file>>

-----------------------------------------------------------------------------
(* AsyncSeekForward for File and for SemaphoreFile. *)

\* the u64 offsets and i64::MAX
Offsets == 0..(2^OffsetBits - 1)
MaxSigned == 2^(OffsetBits - 1) - 1

\* offset.try_into(): whether the u64 fits an i64
TryInto(offset) == offset <= MaxSigned

\* poll_seek(SeekFrom::Current(n)) of a File at position pos: the platform
\* refuses a position that no signed offset represents
PollSeekCurrent(pos, n) ==
    IF pos + n >= 0 /\ pos + n <= MaxSigned
    THEN [res |-> SeekOk(pos + n), pos |-> pos + n]
    ELSE [res |-> SeekErr("InvalidInput"), pos |-> pos]

\* File::poll_seek_forward
FilePollSeekForward(pos, offset) ==
    IF TryInto(offset) THEN PollSeekCurrent(pos, offset)
    ELSE [res |-> SeekErr("InvalidInput"), pos |-> pos]

\* poll_seek_forward with the offset cast (offset as i64), wrapping
SemaphoreFilePollSeekForwardCast(h, offset) ==
    PollSeekCurrent(h.pos, IF offset <= MaxSigned THEN offset ELSE offset - 2^OffsetBits)

\* SemaphoreFile::poll_seek_forward, on self.file
SemaphoreFilePollSeekForward(h, offset) ==
    IF TryInto(offset) THEN PollSeekCurrent(h.pos, offset)
    ELSE [res |-> SeekErr("InvalidInput"), pos |-> h.pos]

\* a task seeks forward on the SemaphoreFile it holds
SeekSemaphoreFile(t, offset) ==
    /\ pc[t] = "idle"
    /\ held[t] # <<>>
    /\ LET r == SemaphoreFilePollSeekForward(held[t][1], offset) IN
          /\ held' = [held EXCEPT ![t][1].pos = r.pos]
          /\ seeked' = [seeked EXCEPT ![t] = r.res]
    /\ UNCHANGED <<descriptor_counter, pc, call, result, env, stream, file>>

\* a task seeks forward on its plain File
SeekFile(t, offset) ==
    /\ LET r == FilePollSeekForward(file[t], offset) IN
          /\ file' = [file EXCEPT ![t] = r.pos]
          /\ seeked' = [seeked EXCEPT ![t] = r.res]
    /\ UNCHANGED <<descriptor_counter, pc, call, result, held, env, stream>>

-----------------------------------------------------------------------------
(* FileAssetWriter.  One caller issues the writer's calls one at a time; it *)
(* writes through the Box<Writer> it got and drops it before its next call. *)
(* A call with two filesystem calls takes two steps.                        *)

WCall(op, p, to) == [op |-> op, path |-> p, to |-> to]

MetaOps == {"write_meta", "remove_meta", "rename_meta"}

\* the full paths a writer call works on
WTarget(c) == IF c.op \in MetaOps THEN FullPath(MetaPath(c.path)) ELSE FullPath(c.path)
WTargetTo(c) == IF c.op \in MetaOps THEN FullPath(MetaPath(c.to)) ELSE FullPath(c.to)

WReturn(e) == IF e = "" THEN WOk ELSE WIo(e)

\* the writer call's future was dropped
WCancelled == [kind |-> "Cancelled", err |-> ""]

readers == <<descriptor_counter, pc, call, result, held>>

WriterFree == wpc = "idle" /\ wh = NoWriter

\* write / write_meta: create_dir_all(parent)
WriteStart(c) ==
    /\ WriterFree
    /\ c.op \in {"write", "write_meta"}
    /\ LET r == CreateDirAll(fs, Parent(WTarget(c))) IN
          /\ fs' = r.fs
          /\ wpc' = IF r.err = "" THEN "create" ELSE "idle"
          /\ wresult' = IF r.err = "" THEN WNone ELSE WIo(r.err)
    /\ wcall' = c
    /\ UNCHANGED <<caller, readers, wh>>

\* write / write_meta: File::create(&full_path), the writer is returned
WriteCreate ==
    /\ wpc = "create"
    /\ LET r == FileCreate(fs, WTarget(wcall)) IN
          /\ fs' = r.fs
          /\ wresult' = WReturn(r.err)
          /\ wh' = IF r.err = "" THEN [path |-> WTarget(wcall), buf |-> <<>>]
                    ELSE NoWriter
    /\ wpc' = "idle"
    /\ UNCHANGED <<caller, readers, wcall>>

\* the caller writes a byte through the Box<Writer>, at the writer's position
WriterWrite(b) ==
    /\ wh # NoWriter
    /\ Len(wh.buf) < MaxData
    /\ fs' = [fs EXCEPT ![wh.path].data = SubSeq(@, 1, Len(wh.buf)) \o <<b>>]
    /\ wh' = [wh EXCEPT !.buf = Append(@, b)]
    /\ UNCHANGED <<caller, readers, wpc, wcall, wresult>>

\* the caller drops the Box<Writer>
WriterClose ==
    /\ wh # NoWriter
    /\ wh' = NoWriter
    /\ UNCHANGED <<caller, readers, fs, wpc, wcall, wresult>>

\* remove / remove_meta
Remove(c) ==
    /\ WriterFree
    /\ c.op \in {"remove", "remove_meta"}
    /\ LET r == RemoveFile(fs, WTarget(c)) IN
          /\ fs' = r.fs
          /\ wresult' = WReturn(r.err)
    /\ wcall' = c
    /\ UNCHANGED <<caller, readers, wpc, wh>>

\* RenameStart without the create_dir_all
RenameStartNoCreate(c) ==
    /\ WriterFree
    /\ c.op \in {"rename", "rename_meta"}
    /\ wpc' = "rename"
    /\ wresult' = WNone
    /\ wcall' = c
    /\ UNCHANGED <<caller, readers, fs, wh>>

\* rename / rename_meta: create_dir_all(parent of the new path)
RenameStart(c) ==
    /\ WriterFree
    /\ c.op \in {"rename", "rename_meta"}
    /\ LET r == CreateDirAll(fs, Parent(WTargetTo(c))) IN
          /\ fs' = r.fs
          /\ wpc' = IF r.err = "" THEN "rename" ELSE "idle"
          /\ wresult' = IF r.err = "" THEN WNone ELSE WIo(r.err)
    /\ wcall' = c
    /\ UNCHANGED <<caller, readers, wh>>

\* a rename that takes the sidecar along with the content file
RenameMoveWithSidecar ==
    /\ wpc = "rename"
    /\ LET r == RenamePath(fs, WTarget(wcall), WTargetTo(wcall))
           m == RenamePath(r.fs, FullPath(MetaPath(wcall.path)),
                           FullPath(MetaPath(wcall.to)))
       IN /\ fs' = IF r.err = "" /\ wcall.op = "rename" THEN m.fs ELSE r.fs
          /\ wresult' = WReturn(r.err)
    /\ wpc' = "idle"
    /\ UNCHANGED <<caller, readers, wcall, wh>>

\* rename / rename_meta: async_fs::rename(full_old_path, full_new_path)
RenameMove ==
    /\ wpc = "rename"
    /\ LET r == RenamePath(fs, WTarget(wcall), WTargetTo(wcall)) IN
          /\ fs' = r.fs
          /\ wresult' = WReturn(r.err)
    /\ wpc' = "idle"
    /\ UNCHANGED <<caller, readers, wcall, wh>>

\* create_directory, remove_directory, remove_empty_directory
DirectoryCall(c) ==
    /\ WriterFree
    /\ c.op \in {"create_directory", "remove_directory", "remove_empty_directory"}
    /\ LET r == CASE c.op = "create_directory" -> CreateDirAll(fs, WTarget(c))
                   [] c.op = "remove_directory" -> RemoveDirAll(fs, WTarget(c))
                   [] OTHER -> RemoveDir(fs, WTarget(c))
       IN /\ fs' = r.fs
          /\ wresult' = WReturn(r.err)
    /\ wcall' = c
    /\ UNCHANGED <<caller, readers, wpc, wh>>

\* remove_assets_in_directory clearing the directory in one step
RemoveAssetsAtomic(c) ==
    /\ WriterFree
    /\ c.op = "remove_assets_in_directory"
    /\ LET r == RemoveDirAll(fs, WTarget(c)) IN
          /\ fs' = IF r.err = "" THEN CreateDirAll(r.fs, WTarget(c)).fs ELSE fs
          /\ wresult' = WReturn(r.err)
    /\ wcall' = c
    /\ UNCHANGED <<caller, readers, wpc, wh>>

\* remove_assets_in_directory: remove_dir_all(&full_path)
RemoveAssetsStart(c) ==
    /\ WriterFree
    /\ c.op = "remove_assets_in_directory"
    /\ LET r == RemoveDirAll(fs, WTarget(c)) IN
          /\ fs' = r.fs
          /\ wpc' = IF r.err = "" THEN "recreate" ELSE "idle"
          /\ wresult' = IF r.err = "" THEN WNone ELSE WIo(r.err)
    /\ wcall' = c
    /\ UNCHANGED <<caller, readers, wh>>

\* remove_assets_in_directory without its create_dir_all
RemoveAssetsNoRecreate ==
    /\ wpc = "recreate"
    /\ wresult' = WOk
    /\ wpc' = "idle"
    /\ UNCHANGED <<caller, readers, fs, wcall, wh>>

\* remove_assets_in_directory: create_dir_all(&full_path)
RemoveAssetsRecreate ==
    /\ wpc = "recreate"
    /\ LET r == CreateDirAll(fs, WTarget(wcall)) IN
          /\ fs' = r.fs
          /\ wresult' = WReturn(r.err)
    /\ wpc' = "idle"
    /\ UNCHANGED <<caller, readers, wcall, wh>>

\* the future of a writer call is dropped between its two filesystem calls
WriterCancel ==
    /\ wpc # "idle"
    /\ wpc' = "idle"
    /\ wresult' = WCancelled
    /\ UNCHANGED <<caller, readers, fs, wcall, wh>>

-----------------------------------------------------------------------------
(* The concurrent readers. *)

Next ==
    \/ \E t \in Tasks, c \in Calls : StartCall(t, c)
    \/ \E t \in Tasks : Acquire(t)
    \/ \E t \in Tasks : Open(t)
    \/ \E t \in Tasks : Stat(t)
    \/ \E t \in Tasks : Cancel(t)
    \/ \E t \in Tasks : DropHandle(t, 1)

Spec == Init /\ [][Next]_vars

-----------------------------------------------------------------------------
(* The scenario of NumTasks concurrent reads of distinct existing files:    *)
(* every task calls read once, on its own file, and drops the handle it got. *)

ScenarioPath(t) == << <<ToString(t), "bin">> >>
ScenarioData(t) == <<t>>

RECURSIVE ScenarioFs(_)
ScenarioFs(S) ==
    IF S = {} THEN (Root :> DirNode)
    ELSE LET t == CHOOSE x \in S : TRUE
         IN (FullPath(ScenarioPath(t)) :> FileNode(ScenarioData(t))) @@ ScenarioFs(S \ {t})

ScenarioInit ==
    /\ descriptor_counter = FILE_LIMIT
    /\ pc = [t \in Tasks |-> "idle"]
    /\ call = [t \in Tasks |-> NoCall]
    /\ result = [t \in Tasks |-> NoResult]
    /\ held = [t \in Tasks |-> <<>>]
    /\ fs = ScenarioFs(Tasks)
    /\ WriterIdle
    /\ CallerIdle

ScenarioRead(t) ==
    /\ call[t] = NoCall
    /\ StartCall(t, Call("read", ScenarioPath(t)))

ScenarioNext ==
    \/ \E t \in Tasks : ScenarioRead(t)
    \/ \E t \in Tasks : Acquire(t)
    \/ \E t \in Tasks : Open(t)
    \/ \E t \in Tasks : DropHandle(t, 1)

\* the executor runs every task that can take a step; every handle is dropped
ScenarioSpec ==
    /\ ScenarioInit
    /\ [][ScenarioNext]_vars
    /\ \A t \in Tasks :
          /\ WF_vars(ScenarioRead(t))
          /\ WF_vars(Acquire(t))
          /\ WF_vars(Open(t))
          /\ WF_vars(DropHandle(t, 1))

-----------------------------------------------------------------------------
(* Callers that keep calling: no call is cancelled, every call that can     *)
(* take its permit, finish its open or its stat does so, and every handle   *)
(* is dropped.  The semaphore's acquire promises no order among callers, so *)
(* a waiter is only sure of a permit that stays free.                       *)

ChurnNext ==
    \/ \E t \in Tasks, c \in Calls : StartCall(t, c)
    \/ \E t \in Tasks : Acquire(t)
    \/ \E t \in Tasks : Open(t)
    \/ \E t \in Tasks : Stat(t)
    \/ \E t \in Tasks : DropHandle(t, 1)

ChurnSpec ==
    /\ Init
    /\ [][ChurnNext]_vars
    /\ \A t \in Tasks :
          /\ WF_vars(Acquire(t))
          /\ WF_vars(Open(t))
          /\ WF_vars(Stat(t))
          /\ WF_vars(DropHandle(t, 1))

-----------------------------------------------------------------------------
(* A writer and a reader on the same Root: the writer's caller and one      *)
(* reader task run concurrently on a tree with a file and its sidecar at    *)
(* the top, and a directory d holding a file, its sidecar and a nested      *)
(* directory with a file.  Paths are sequences of normal components, so     *)
(* different paths name different files.                                    *)

E == <<"e">>

FsTree ==
    (Root :> DirNode)
    @@ (FullPath(<<A_PNG>>) :> FileNode(<<1>>))
    @@ (FullPath(<<MetaName(A_PNG)>>) :> FileNode(<<2>>))
    @@ (FullPath(<<D>>) :> DirNode)
    @@ (FullPath(<<D, B_PNG>>) :> FileNode(<<3>>))
    @@ (FullPath(<<D, MetaName(B_PNG)>>) :> FileNode(<<4>>))
    @@ (FullPath(<<D, E>>) :> DirNode)
    @@ (FullPath(<<D, E, A_PNG>>) :> FileNode(<<5>>))

\* the bytes written through a writer
Bytes == {7}

\* the tasks that read
FsReaders == {1}

FsCalls ==
    {Call("read", p) : p \in {<<A_PNG>>, <<E, B_PNG>>, <<A_PNG, Q>>, <<D>>}}
    \cup {Call("read_meta", p) : p \in {<<A_PNG>>, <<E, B_PNG>>}}
    \cup {Call("is_directory", p) : p \in {<<D>>, <<E>>}}

WriteCalls ==
    {WCall("write", <<A_PNG>>, <<>>), WCall("write", <<E, B_PNG>>, <<>>),
     WCall("write_meta", <<E, B_PNG>>, <<>>)}

RemoveCalls ==
    {WCall("remove", <<A_PNG>>, <<>>), WCall("remove_meta", <<E, B_PNG>>, <<>>)}

RenameCalls ==
    {WCall("rename", <<A_PNG>>, <<E, B_PNG>>),
     WCall("rename_meta", <<A_PNG>>, <<E, B_PNG>>)}

DirectoryCalls ==
    {WCall("create_directory", <<E>>, <<>>), WCall("remove_directory", <<E>>, <<>>),
     WCall("remove_empty_directory", <<E>>, <<>>)}

RemoveAssetsCalls ==
    {WCall("remove_assets_in_directory", <<D>>, <<>>)}

FsInit ==
    /\ descriptor_counter = FILE_LIMIT
    /\ pc = [t \in Tasks |-> "idle"]
    /\ call = [t \in Tasks |-> NoCall]
    /\ result = [t \in Tasks |-> NoResult]
    /\ held = [t \in Tasks |-> <<>>]
    /\ fs = FsTree
    /\ WriterIdle
    /\ CallerIdle

FsNext ==
    \/ \E t \in FsReaders, c \in FsCalls : StartCall(t, c)
    \/ \E t \in FsReaders : Acquire(t)
    \/ \E t \in FsReaders : Open(t)
    \/ \E t \in FsReaders : Stat(t)
    \/ \E t \in FsReaders : DropHandle(t, 1)
    \/ \E c \in WriteCalls : WriteStart(c)
    \/ WriteCreate
    \/ \E b \in Bytes : WriterWrite(b)
    \/ WriterClose
    \/ \E c \in RemoveCalls : Remove(c)
    \/ \E c \in RenameCalls : RenameStart(c)
    \/ RenameMove
    \/ \E c \in DirectoryCalls : DirectoryCall(c)
    \/ \E c \in RemoveAssetsCalls : RemoveAssetsStart(c)
    \/ RemoveAssetsRecreate

FsSpec == FsInit /\ [][FsNext]_vars

-----------------------------------------------------------------------------
(* Directory listings: a directory d with any MaxEntries of the names       *)
(* below, files or directories, listed by one task.                         *)

MaxEntries == 3

\* "b.png", "b.png.meta", "b.png.META", "c.Meta", ".meta", ".git", "sub.meta"
ListNames ==
    {B_PNG, MetaName(B_PNG), <<"b", "png", "META">>, <<"c", "Meta">>,
     <<"", "meta">>, <<"", "git">>, <<"sub", "meta">>}

\* the trees with the entries S in d; "sub.meta" is a directory
ListTree(S) ==
    [q \in {Root, FullPath(<<D>>)} \cup {FullPath(<<D, n>>) : n \in S} |->
        IF Len(q) <= 2 \/ q[3] = <<"sub", "meta">> THEN DirNode ELSE FileNode(<<1>>)]

ListInit ==
    /\ descriptor_counter = FILE_LIMIT
    /\ pc = [t \in Tasks |-> "idle"]
    /\ call = [t \in Tasks |-> NoCall]
    /\ result = [t \in Tasks |-> NoResult]
    /\ held = [t \in Tasks |-> <<>>]
    /\ \E S \in SUBSET ListNames : Cardinality(S) <= MaxEntries /\ fs = ListTree(S)
    /\ WriterIdle
    /\ CallerIdle

ListNext == \E t \in FsReaders, p \in {<<D>>, <<C_PNG>>} : ReadDirectoryCall(t, p)

ListSpec == ListInit /\ [][ListNext]_vars

-----------------------------------------------------------------------------
(* Sidecars and listings: the writer's caller writes assets and their       *)
(* sidecars into the directory e, which a reader task lists.                *)

C_NOEXT == <<"c">>

\* "e/b.png" and "e/c"
SidecarPaths == {<<E, B_PNG>>, <<E, C_NOEXT>>}

SidecarNext ==
    \/ \E p \in SidecarPaths : WriteStart(WCall("write", p, <<>>))
    \/ \E p \in SidecarPaths : WriteStart(WCall("write_meta", p, <<>>))
    \/ WriteCreate
    \/ WriterClose
    \/ \E t \in FsReaders : ReadDirectoryCall(t, <<E>>)

SidecarSpec == FsInit /\ [][SidecarNext]_vars

-----------------------------------------------------------------------------
(* is_directory among reads: the tasks query a directory, a file, a missing *)
(* path and a path below a file, and read a file whose handle they keep for *)
(* a while.                                                                 *)

StatCalls ==
    {Call("is_directory", p) : p \in {<<D>>, <<A_PNG>>, <<C_PNG>>, <<A_PNG, Q>>}}
    \cup {Call("read", <<A_PNG>>)}

StatNext ==
    \/ \E t \in Tasks, c \in StatCalls : StartCall(t, c)
    \/ \E t \in Tasks : Acquire(t)
    \/ \E t \in Tasks : Open(t)
    \/ \E t \in Tasks : Stat(t)
    \/ \E t \in Tasks : DropHandle(t, 1)

StatSpec == Init /\ [][StatNext]_vars

-----------------------------------------------------------------------------
(* The writer and listings beside readers that keep what they open: every   *)
(* task reads d/b.png and never drops its handle, while the writer's caller *)
(* works on the directory e and one task lists it.                          *)

HeldCalls ==
    {WCall("write", <<E, B_PNG>>, <<>>), WCall("write_meta", <<E, B_PNG>>, <<>>),
     WCall("remove", <<E, B_PNG>>, <<>>), WCall("remove_meta", <<E, B_PNG>>, <<>>),
     WCall("rename", <<A_PNG>>, <<E, B_PNG>>),
     WCall("rename_meta", <<A_PNG>>, <<E, B_PNG>>),
     WCall("create_directory", <<E>>, <<>>), WCall("remove_directory", <<E>>, <<>>),
     WCall("remove_empty_directory", <<E>>, <<>>),
     WCall("remove_assets_in_directory", <<E>>, <<>>)}

\* a writer call starts
WriterStart(c) ==
    \/ WriteStart(c)
    \/ Remove(c)
    \/ RenameStart(c)
    \/ DirectoryCall(c)
    \/ RemoveAssetsStart(c)

\* a writer call in progress goes on
WriterStep ==
    \/ WriteCreate
    \/ RenameMove
    \/ RemoveAssetsRecreate

HeldNext ==
    \/ \E t \in Tasks : StartCall(t, Call("read", <<D, B_PNG>>))
    \/ \E t \in Tasks : Acquire(t)
    \/ \E t \in Tasks : Open(t)
    \/ \E c \in HeldCalls : WriterStart(c)
    \/ WriterStep
    \/ WriterClose
    \/ \E t \in FsReaders : ReadDirectoryCall(t, <<E>>)

HeldSpec == FsInit /\ [][HeldNext]_vars

-----------------------------------------------------------------------------
(* Clearing a directory: the writer's caller clears d, which holds entries, *)
(* and e, which does not exist, and may drop the call between its steps; a  *)
(* reader task queries and lists d meanwhile.                               *)

ClearCalls ==
    {WCall("remove_assets_in_directory", <<D>>, <<>>),
     WCall("remove_assets_in_directory", <<E>>, <<>>)}

ClearNext ==
    \/ \E c \in ClearCalls : RemoveAssetsStart(c)
    \/ RemoveAssetsRecreate
    \/ WriterCancel
    \/ \E t \in FsReaders : StartCall(t, Call("is_directory", <<D>>))
    \/ \E t \in FsReaders : Acquire(t)
    \/ \E t \in FsReaders : Stat(t)
    \/ \E t \in FsReaders : ReadDirectoryCall(t, <<D>>)

ClearSpec == FsInit /\ [][ClearNext]_vars

-----------------------------------------------------------------------------
(* Seeking: a task reads a.png and seeks forward on the handle, and on a    *)
(* plain File of its own, by any offsets, one after another.                *)

SeekNext ==
    \/ \E t \in FsReaders : StartCall(t, Call("read", <<A_PNG>>))
    \/ \E t \in FsReaders : Acquire(t)
    \/ \E t \in FsReaders : Open(t)
    \/ \E t \in FsReaders, o \in Offsets : SeekSemaphoreFile(t, o)
    \/ \E t \in FsReaders, o \in Offsets : SeekFile(t, o)
    \/ \E t \in FsReaders : DropHandle(t, 1)

SeekSpec == Init /\ [][SeekNext]_vars

\* ---- callers that keep a sidecar handle while they read the asset ----
NestedNext ==
    \/ \E t \in Tasks : StartCall(t, Call("read_meta", <<A_PNG>>))
    \/ \E t \in Tasks : NestedRead(t)
    \/ \E t \in Tasks : Acquire(t)
    \/ \E t \in Tasks : Open(t)
    \/ \E t \in Tasks : NestedDrop(t)

NestedSpec == Init /\ [][NestedNext]_vars

-----------------------------------------------------------------------------
(* Permit accounting. *)

RECURSIVE SumLen(_, _)
SumLen(h, S) ==
    IF S = {} THEN 0
    ELSE LET t == CHOOSE x \in S : TRUE IN Len(h[t]) + SumLen(h, S \ {t})

\* files the reader holds open: one per live SemaphoreFile
OpenFiles == SumLen(held, Tasks)

\* guards alive: calls between their acquire and their return, and live handles
Outstanding == Cardinality({t \in Tasks : pc[t] \in {"open", "stat"}}) + OpenFiles

\* permits the semaphore has given out and not got back
Issued == FILE_LIMIT - descriptor_counter

Quiescent == \A t \in Tasks : pc[t] = "idle" /\ held[t] = <<>>

-----------------------------------------------------------------------------
(* C1: under any interleaving of read, read_meta and is_directory calls and *)
(* of handle drops, at most FILE_LIMIT permits are outstanding; a caller    *)
(* that arrives when FILE_LIMIT permits are outstanding stays suspended in  *)
(* acquire: it has no result (it did not fail) and it cannot be admitted.   *)
C1_PermitBound ==
    /\ Outstanding <= FILE_LIMIT
    /\ \A t \in Tasks :
          pc[t] = "acquire" =>
             /\ result[t] = NoResult
             /\ Outstanding = FILE_LIMIT => ~ENABLED Acquire(t)

C1_Witness ==
    /\ Outstanding = FILE_LIMIT
    /\ \E t \in Tasks : pc[t] = "acquire"

(* C2: a SemaphoreFile comes into being only in the return of a call that   *)
(* holds an acquired permit, and that permit stays issued; dropping the     *)
(* handle gives back exactly one permit; so the open files never outnumber  *)
(* the issued permits, which never outnumber FILE_LIMIT.                    *)
C2_HandleOwnsPermit ==
    /\ [](OpenFiles <= Issued /\ Issued <= FILE_LIMIT)
    /\ [][\A t \in Tasks :
            /\ Len(held'[t]) > Len(held[t]) =>
                  /\ pc[t] = "open"
                  /\ call[t].op \in {"read", "read_meta"}
                  /\ Len(held'[t]) = Len(held[t]) + 1
                  /\ descriptor_counter' = descriptor_counter
            /\ Len(held'[t]) < Len(held[t]) =>
                  /\ Len(held'[t]) = Len(held[t]) - 1
                  /\ descriptor_counter' = descriptor_counter + 1]_vars

C2_Witness ==
    /\ OpenFiles = FILE_LIMIT
    /\ descriptor_counter = 0
    /\ \E t \in Tasks : held[t] # <<>> /\ call[t].op = "read_meta"

(* C3: the return of a read or read_meta whose open failed, with NotFound   *)
(* or with any other I/O error, gives back the permit the call acquired and *)
(* leaves no handle; once all calls have returned and no handle is held,    *)
(* every permit is back, however many reads failed.                         *)
C3_OpenFailureReleasesPermit ==
    /\ [][\A t \in Tasks :
            (pc[t] = "open" /\ result'[t].kind \in {"NotFound", "Io"}) =>
               /\ descriptor_counter' = descriptor_counter + 1
               /\ held' = held]_vars
    /\ [](Quiescent => descriptor_counter = FILE_LIMIT)

C3_Witness ==
    /\ Quiescent
    /\ descriptor_counter = FILE_LIMIT
    /\ \E t, u \in Tasks : result[t].kind = "NotFound" /\ result[u].kind = "Io"

(* C4: cancelling a call suspended in acquire leaves the permit count as it *)
(* was, cancelling it between its acquire and the end of its open gives the *)
(* permit back, and neither leaves a handle; a cancelled caller holds no    *)
(* claim on the semaphore: every issued permit belongs to a live guard, and *)
(* a free permit can be taken by any caller still waiting.                  *)
C4_CancelLeaksNoPermit ==
    /\ [][\A t \in Tasks :
            (result'[t].kind = "Cancelled" /\ result[t].kind # "Cancelled") =>
               /\ pc[t] = "acquire" => descriptor_counter' = descriptor_counter
               /\ pc[t] = "open" => descriptor_counter' = descriptor_counter + 1
               /\ pc[t] \in {"acquire", "open"}
               /\ held' = held]_vars
    /\ []((\E t \in Tasks : result[t].kind = "Cancelled") =>
             /\ Issued = Outstanding
             /\ \A u \in Tasks :
                   (pc[u] = "acquire" /\ descriptor_counter > 0) => ENABLED Acquire(u))

C4_Witness ==
    /\ descriptor_counter = FILE_LIMIT
    /\ \E t, u \in Tasks :
          /\ result[t] = Cancelled("acquire")
          /\ result[u] = Cancelled("open")

Holding == {t \in Tasks : held[t] # <<>>}
GotHandle == {t \in Tasks : result[t].kind = "Ok"}
HasDropped == {t \in Tasks : result[t].kind = "Ok" /\ held[t] = <<>>}

(* C5: with NumTasks > FILE_LIMIT concurrent reads of distinct existing     *)
(* files, at most FILE_LIMIT calls hold an open handle at any instant; a    *)
(* call that returns its handle when FILE_LIMIT handles were returned       *)
(* before it does so only after an earlier handle was dropped; every handle *)
(* is on the caller's own file and reads that file's content; and, handles  *)
(* being dropped eventually, every call eventually returns its handle.      *)
C5_BoundedConcurrentReads ==
    /\ [](Cardinality(Holding) <= FILE_LIMIT)
    /\ [](\A t \in Holding :
            /\ held[t][1].path = FullPath(ScenarioPath(t))
            /\ Content(held[t][1]) = ScenarioData(t))
    /\ [][\A t \in Tasks :
            (t \in GotHandle' \ GotHandle /\ Cardinality(GotHandle) >= FILE_LIMIT) =>
               Cardinality(HasDropped) > Cardinality(GotHandle) - FILE_LIMIT]_vars
    /\ \A t \in Tasks : <>(result[t] = OkHandle(FullPath(ScenarioPath(t))))

C5_Witness ==
    /\ NumTasks > FILE_LIMIT
    /\ GotHandle = Tasks
    /\ Cardinality(Holding) = FILE_LIMIT
    /\ HasDropped # {}

(* C6: every call suspended in acquire is eventually granted a permit, also *)
(* while other callers keep acquiring and releasing, every holder releasing *)
(* eventually.                                                              *)
C6_EveryWaiterProgresses ==
    \A t \in Tasks : (pc[t] = "acquire") ~> (pc[t] \in {"open", "stat"})

-----------------------------------------------------------------------------
(* Writer and reader on the same Root. *)

\* task t's open returns in this step
OpenReturns(t) == pc[t] = "open" /\ pc'[t] = "idle" /\ result'[t].kind # "Cancelled"

\* the handle task t's call returned in this step
Returned(t) == held'[t][Len(held'[t])]

(* C7: read(p) on a missing file returns NotFound carrying FullPath(p), and *)
(* read_meta(p) on a missing sidecar NotFound carrying                      *)
(* FullPath(MetaPath(p)); a file that is there and cannot be opened gives   *)
(* the generic I/O error, and a file that can be opened is never NotFound.  *)
C7_MissingFileIsNotFound ==
    [][\A t \in Tasks : OpenReturns(t) =>
          LET full_path == OpenTarget(call[t]) IN
          /\ full_path \notin DOMAIN fs => result'[t] = NotFound(full_path)
          /\ full_path \in DOMAIN fs => result'[t].kind \in {"Ok", "Io"}
          /\ (full_path \in DOMAIN fs /\ fs[full_path] = FileNode(fs[full_path].data))
                => result'[t] = OkHandle(full_path)]_vars

(* C8: for a path p absent under Root read(p) and read_meta(p) return       *)
(* NotFound; while the writer that a successful write(p) returned has       *)
(* written the bytes B, read(p) returns a handle that reads exactly B.      *)
C8_WriteReadRoundTrip ==
    [][\A t \in Tasks : OpenReturns(t) =>
          /\ FullPath(call[t].path) \notin DOMAIN fs => result'[t].kind = "NotFound"
          /\ (call[t].op = "read" /\ wh.path = FullPath(call[t].path)) =>
                /\ result'[t] = OkHandle(FullPath(call[t].path))
                /\ Content(Returned(t)) = wh.buf]_vars

\* the parts of C7 and C8 that hold: an open that fails with ENOENT returns
\* NotFound with the path opened, any other failure the generic error, a
\* readable file its handle; what was written through a writer is in its file
OpenResultMapping ==
    [][\A t \in Tasks : OpenReturns(t) =>
          LET full_path == OpenTarget(call[t]) IN
          /\ Resolve(fs, full_path) = "ENOENT" => result'[t] = NotFound(full_path)
          /\ result'[t].kind = "NotFound" => full_path \notin DOMAIN fs
          /\ (full_path \in DOMAIN fs /\ fs[full_path] = FileNode(fs[full_path].data))
                => /\ result'[t] = OkHandle(full_path)
                   /\ Content(Returned(t)) = fs[full_path].data]_vars

WrittenIsInFile ==
    wh # NoWriter =>
        /\ wh.path \in DOMAIN fs
        /\ fs[wh.path] = FileNode(wh.buf)
        /\ \A q \in Prefixes(Parent(wh.path)) : DirExists(fs, q)

\* a rename(a, b) of a content file returns success in this step
RenameReturns ==
    /\ wpc = "rename" /\ wpc' = "idle" /\ wresult' = WOk
    /\ wcall.op = "rename"
    /\ FullPath(wcall.path) \in DOMAIN fs
    /\ fs[FullPath(wcall.path)].kind = "file"
    /\ wcall.path # wcall.to

\* the last call of the writer's caller was a rename that succeeded
Renamed == wpc = "idle" /\ wcall.op = "rename" /\ wresult = WOk /\ wcall.path # wcall.to

(* C9: when rename(a, b) of an existing content file a with content B       *)
(* succeeds, a is gone and b is a file with content B, whether or not b's   *)
(* parent directories existed; a read(a) after it returns NotFound and a    *)
(* read(b) after it a handle that reads the content of b.                   *)
C9_RenameMovesContent ==
    /\ [][RenameReturns =>
            /\ FullPath(wcall.path) \notin DOMAIN fs'
            /\ FullPath(wcall.to) \in DOMAIN fs'
            /\ fs'[FullPath(wcall.to)] = fs[FullPath(wcall.path)]]_vars
    /\ [][\A t \in Tasks : (Renamed /\ OpenReturns(t) /\ call[t].op = "read") =>
            /\ call[t].path = wcall.path => result'[t] = NotFound(FullPath(wcall.path))
            /\ call[t].path = wcall.to =>
                  /\ result'[t] = OkHandle(FullPath(wcall.to))
                  /\ Content(Returned(t)) = fs[FullPath(wcall.to)].data]_vars

\* a successful rename into a directory it created, read back from the new path
C9_Witness ==
    /\ Renamed
    /\ wcall.to = <<E, B_PNG>>
    /\ \E t \in Tasks :
          /\ call[t] = Call("read", wcall.to)
          /\ result[t].kind = "Ok"
          /\ held[t] # <<>>
          /\ Content(held[t][1]) = <<1>>

\* the entries outside the directory at p
Outside(f, p) == Without(f, {p} \cup Below(f, p))

(* C10: when remove_assets_in_directory(d) returns success, d is a          *)
(* directory with no entries (read_directory(d) lists nothing and           *)
(* is_directory(d) is true), and no step of the call changes an entry       *)
(* outside d.                                                               *)
C10_RemoveAssetsLeavesEmptyDir ==
    /\ [][(wpc = "recreate" /\ wpc' = "idle" /\ wresult' = WOk) =>
            /\ Metadata(fs', WTarget(wcall)) = "dir"
            /\ Below(fs', WTarget(wcall)) = {}
            /\ ReadDirectory(fs', wcall.path) = {}]_vars
    /\ [][wcall'.op = "remove_assets_in_directory" /\ (wpc = "recreate" \/ wpc' = "recreate")
            => Outside(fs', WTarget(wcall')) = Outside(fs, WTarget(wcall'))]_vars

\* the call has emptied a directory that held files and a nested directory
C10_Witness ==
    /\ wpc = "idle" /\ wresult = WOk
    /\ wcall = WCall("remove_assets_in_directory", <<D>>, <<>>)
    /\ Below(FsTree, FullPath(<<D>>)) # {}
    /\ \E q \in Below(FsTree, FullPath(<<D>>)) : FsTree[q].kind = "dir"
    /\ Below(fs, FullPath(<<D>>)) = {}
    /\ FullPath(<<D>>) \in DOMAIN fs

-----------------------------------------------------------------------------
(* Directory listings. *)

\* a name that ends with the metadata suffix in some letter case
EndsWithMetaSuffix(n) == Len(n) >= 2 /\ n[Len(n)] \in MetaSpellings

\* how often x is in the sequence s
Count(s, x) == Cardinality({i \in 1..Len(s) : s[i] = x})

(* C11: a listing that read_directory(p) returns holds no path whose final  *)
(* segment ends with the metadata suffix in any letter case, and holds      *)
(* every other entry of the directory exactly once, relative to Root.       *)
C11_ListingHidesMetaSuffix ==
    \A t \in Tasks :
        (call[t].op = "read_directory" /\ stream[t].kind = "Ok") =>
            LET items == stream[t].items
                others == {x \in Entries(fs, FullPath(call[t].path)) :
                              ~EndsWithMetaSuffix(x[Len(x)])}
            IN /\ \A i \in 1..Len(items) : ~EndsWithMetaSuffix(items[i][Len(items[i])])
               /\ \A x \in others : Count(items, StripRoot(x)) = 1
               /\ \A i \in 1..Len(items) : FullPath(items[i]) \in others

\* what holds of the listing: it leaves out exactly the entries whose
\* extension is meta in some letter case
ListingHidesMetaExtension ==
    \A t \in Tasks :
        (call[t].op = "read_directory" /\ stream[t].kind = "Ok") =>
            LET items == stream[t].items
                others == {x \in Entries(fs, FullPath(call[t].path)) :
                              Extension(x[Len(x)]) \notin MetaSpellings}
            IN /\ \A x \in others : Count(items, StripRoot(x)) = 1
               /\ \A i \in 1..Len(items) : FullPath(items[i]) \in others

\* task t's read_directory returns a stream in this step
ListingReturns(t) == stream'[t] # stream[t] /\ stream'[t].kind = "Ok"

(* C12: the file write_meta(p) creates is the one at MetaPath(p); a listing *)
(* of p's parent directory never yields MetaPath(p), and yields p exactly   *)
(* once when the content file of p exists, its sidecar existing or not.     *)
C12_SidecarNamingAgreesWithFilter ==
    /\ [][(wpc = "create" /\ wcall.op = "write_meta" /\ wresult' = WOk) =>
            /\ FullPath(MetaPath(wcall.path)) \in DOMAIN fs'
            /\ fs'[FullPath(MetaPath(wcall.path))] = FileNode(<<>>)
            /\ DOMAIN fs' \ DOMAIN fs \subseteq {FullPath(MetaPath(wcall.path))}]_vars
    /\ [][\A t \in Tasks : ListingReturns(t) =>
            \A p \in SidecarPaths :
               Parent(p) = call'[t].path =>
                  /\ Count(stream'[t].items, MetaPath(p)) = 0
                  /\ FullPath(p) \in DOMAIN fs => Count(stream'[t].items, p) = 1]_vars

\* "e/b.png" and "e/b.png.meta" both exist and the listing of e is "e/b.png"
C12_Witness ==
    /\ {FullPath(<<E, B_PNG>>), FullPath(MetaPath(<<E, B_PNG>>))} \subseteq DOMAIN fs
    /\ FullPath(<<E, C_NOEXT>>) \notin DOMAIN fs
    /\ \E t \in Tasks :
          /\ call[t] = Call("read_directory", <<E>>)
          /\ stream[t] = OkStream(<< <<E, B_PNG>> >>)

-----------------------------------------------------------------------------
(* is_directory. *)

\* task t's is_directory returns in this step
StatReturns(t) == pc[t] = "stat" /\ pc'[t] = "idle"

(* C13: an is_directory call takes a permit like a read: it cannot be       *)
(* admitted while FILE_LIMIT permits are outstanding, it takes one permit   *)
(* when admitted, and its return, whatever the answer, gives that permit    *)
(* back, so that a returned call holds none.                                *)
C13_IsDirectoryGated ==
    /\ [](\A t \in Tasks :
            (call[t].op = "is_directory" /\ pc[t] = "acquire") =>
               /\ result[t] = NoResult
               /\ Outstanding = FILE_LIMIT => ~ENABLED Acquire(t))
    /\ [][\A t \in Tasks : call[t].op = "is_directory" =>
            /\ (pc[t] = "acquire" /\ pc'[t] # "acquire") =>
                  /\ pc'[t] = "stat"
                  /\ descriptor_counter' = descriptor_counter - 1
            /\ StatReturns(t) =>
                  /\ result'[t].kind \in {"Bool", "NotFound"}
                  /\ descriptor_counter' = descriptor_counter + 1]_vars
    /\ [](Issued = Outstanding)

\* a query waits at capacity, one permit being held by another query that
\* has been admitted and one by an open handle
C13_Witness ==
    /\ Outstanding = FILE_LIMIT
    /\ \E t, u, v \in Tasks :
          /\ call[t].op = "is_directory" /\ pc[t] = "acquire"
          /\ call[u].op = "is_directory" /\ pc[u] = "stat"
          /\ held[v] # <<>>

(* C14: is_directory(p) returns true when the entry at FullPath(p) is a     *)
(* directory, false when it is another entry, and when there is no entry to *)
(* get metadata of, the path missing or running through a file, NotFound    *)
(* with the relative path p, never the absolute path or the generic error.  *)
C14_IsDirectoryAnswer ==
    [][\A t \in Tasks : StatReturns(t) =>
          LET p == call[t].path IN
          /\ result'[t] = OkBool(TRUE) <=>
                (FullPath(p) \in DOMAIN fs /\ fs[FullPath(p)].kind = "dir")
          /\ (FullPath(p) \in DOMAIN fs /\ fs[FullPath(p)].kind # "dir") =>
                result'[t] = OkBool(FALSE)
          /\ FullPath(p) \notin DOMAIN fs =>
                /\ result'[t] = NotFound(p)
                /\ result'[t].path # FullPath(p)
          /\ result'[t].kind # "Io"]_vars

\* the three answers: a directory, a file, a path below a file
C14_Witness ==
    \E t, u, v \in Tasks :
        /\ call[t] = Call("is_directory", <<D>>) /\ result[t] = OkBool(TRUE)
        /\ call[u] = Call("is_directory", <<A_PNG>>) /\ result[u] = OkBool(FALSE)
        /\ call[v] = Call("is_directory", <<A_PNG, Q>>)
        /\ result[v] = NotFound(<<A_PNG, Q>>)

-----------------------------------------------------------------------------
(* What takes no permit. *)

\* every permit is held by an open handle
Exhausted == descriptor_counter = 0 /\ OpenFiles = FILE_LIMIT

\* the step is one of the writer's caller or of a read_directory
UngatedStep == <<fs, wpc, wcall, wresult, wh, stream>>' # <<fs, wpc, wcall, wresult, wh, stream>>

(* C15: a step of an AssetWriter operation or of read_directory changes no  *)
(* permit count and suspends nobody, and with every permit held by an open  *)
(* handle each writer call can still start, a writer call in progress can   *)
(* still go on, and read_directory can still return.                        *)
C15_WriterAndListingUngated ==
    /\ [][UngatedStep =>
            /\ descriptor_counter' = descriptor_counter
            /\ pc' = pc
            /\ held' = held]_vars
    /\ [](Exhausted =>
            /\ WriterFree => \A c \in HeldCalls : ENABLED WriterStart(c)
            /\ wpc # "idle" => ENABLED WriterStep
            /\ \A t \in FsReaders : pc[t] = "idle" => ENABLED ReadDirectoryCall(t, <<E>>))

\* every permit is held by a handle, a writer call that began with a
\* create_dir_all goes on, and the listing of e has returned what is in it
C15_Witness ==
    /\ Exhausted
    /\ wpc = "create"
    /\ \E t \in Tasks :
          /\ held[t] # <<>>
          /\ call[t] = Call("read_directory", <<E>>)
          /\ stream[t].kind = "Ok"

-----------------------------------------------------------------------------
(* remove_assets_in_directory in two steps. *)

\* a remove_assets_in_directory call is made in this step
ClearBegins ==
    /\ wpc = "idle"
    /\ wcall'.op = "remove_assets_in_directory"
    /\ <<wpc, wcall, wresult>>' # <<wpc, wcall, wresult>>

(* C16: remove_assets_in_directory(d) on an existing directory d first      *)
(* leaves d absent, and recreates it in a second step; between the steps    *)
(* is_directory(d) and read_directory(d) return NotFound, and a call        *)
(* dropped there leaves d absent.  When d does not exist the call returns   *)
(* an I/O error in its first step and creates nothing.                      *)
C16_RemoveAssetsNotAtomic ==
    /\ [][(ClearBegins /\ Metadata(fs, WTarget(wcall')) = "dir") =>
            /\ wpc' = "recreate"
            /\ wresult' = WNone
            /\ WTarget(wcall') \notin DOMAIN fs']_vars
    /\ [](wpc = "recreate" => WTarget(wcall) \notin DOMAIN fs)
    /\ [][\A t \in Tasks : (wpc = "recreate" /\ call'[t].path = wcall.path) =>
            /\ StatReturns(t) => result'[t] = NotFound(wcall.path)
            /\ stream'[t] # stream[t] => stream'[t] = StreamNotFound(WTarget(wcall))]_vars
    /\ [][(wpc = "recreate" /\ wresult' = WCancelled) =>
            WTarget(wcall) \notin DOMAIN fs']_vars
    /\ [][(ClearBegins /\ WTarget(wcall') \notin DOMAIN fs) =>
            /\ wpc' = "idle"
            /\ wresult'.kind = "Io"
            /\ fs' = fs]_vars

\* between the two steps on d, the listing of d has come back NotFound
C16_Witness ==
    /\ wpc = "recreate"
    /\ wcall.path = <<D>>
    /\ \E t \in Tasks :
          /\ call[t] = Call("read_directory", <<D>>)
          /\ stream[t] = StreamNotFound(FullPath(<<D>>))

-----------------------------------------------------------------------------
(* rename and rename_meta. *)

\* the trees f and g have the same at the path q
Same(f, g, q) == (q \in DOMAIN f <=> q \in DOMAIN g) /\ (q \in DOMAIN f => f[q] = g[q])

\* a step of the rename or rename_meta call c
RenameStep(c) == (wpc = "idle" /\ wpc' = "rename" /\ wcall' = c) \/ (wpc = "rename" /\ wcall = c)

(* C17: no step of rename(old, new) changes what is at MetaPath(old) or at  *)
(* MetaPath(new), and no step of rename_meta(old, new) changes what is at   *)
(* old or at new; a successful rename_meta moves the sidecar of old to      *)
(* MetaPath(new).  After a rename alone read_meta(old) still returns the    *)
(* sidecar of old, and read_meta(new) returns NotFound when new has none.   *)
C17_RenameAndRenameMetaIndependent ==
    /\ [][\A c \in RenameCalls : RenameStep(c) =>
            IF c.op = "rename"
            THEN /\ Same(fs, fs', FullPath(MetaPath(c.path)))
                 /\ Same(fs, fs', FullPath(MetaPath(c.to)))
            ELSE /\ Same(fs, fs', FullPath(c.path))
                 /\ Same(fs, fs', FullPath(c.to))
                 /\ (wpc = "rename" /\ wresult' = WOk) =>
                       /\ FullPath(MetaPath(c.path)) \notin DOMAIN fs'
                       /\ FullPath(MetaPath(c.to)) \in DOMAIN fs'
                       /\ fs'[FullPath(MetaPath(c.to))] = fs[FullPath(MetaPath(c.path))]]_vars
    /\ [][\A t \in Tasks : (Renamed /\ OpenReturns(t) /\ call[t].op = "read_meta") =>
            /\ (call[t].path = wcall.path /\ FullPath(MetaPath(wcall.path)) \in DOMAIN fs) =>
                  /\ result'[t] = OkHandle(FullPath(MetaPath(wcall.path)))
                  /\ Content(Returned(t)) = fs[FullPath(MetaPath(wcall.path))].data
            /\ (call[t].path = wcall.to /\ FullPath(MetaPath(wcall.to)) \notin DOMAIN fs) =>
                  result'[t] = NotFound(FullPath(MetaPath(wcall.to)))]_vars

\* a.png was renamed to e/b.png; its sidecar is where it was and is read
C17_Witness ==
    /\ Renamed
    /\ FullPath(wcall.path) \notin DOMAIN fs
    /\ FullPath(MetaPath(wcall.to)) \notin DOMAIN fs
    /\ \E t \in Tasks :
          /\ call[t] = Call("read_meta", wcall.path)
          /\ result[t] = OkHandle(FullPath(MetaPath(wcall.path)))
          /\ held[t] # <<>>
          /\ Content(held[t][1]) = <<2>>

\* the directories above the path q all exist
ParentChainExists(f, q) == \A x \in Prefixes(Parent(q)) : DirExists(f, x)

\* the move of a rename call returns in this step
MoveReturns == wpc = "rename" /\ wpc' = "idle" /\ wcall.op = "rename" /\ wresult' # WCancelled

(* C18: rename(old, new) attempts the move only with new's parent chain in  *)
(* place, having created of it what was missing and nothing else, so the    *)
(* chain exists when the move returns, succeeded or failed; a move that     *)
(* fails returns an I/O error and leaves the tree as the move found it: no  *)
(* file at new comes of it and old is what it was.                          *)
C18_RenameCreatesParentChainFirst ==
    /\ [](wpc = "rename" => ParentChainExists(fs, WTargetTo(wcall)))
    /\ [][(wpc = "idle" /\ wpc' = "rename") =>
            /\ \A q \in DOMAIN fs : q \in DOMAIN fs' /\ fs'[q] = fs[q]
            /\ \A q \in DOMAIN fs' \ DOMAIN fs :
                  fs'[q] = DirNode /\ q \in Prefixes(Parent(WTargetTo(wcall')))]_vars
    /\ [][MoveReturns =>
            /\ ParentChainExists(fs', WTargetTo(wcall))
            /\ wresult' # WOk =>
                  /\ wresult'.kind = "Io"
                  /\ fs' = fs]_vars

\* the move of a.png, which is gone, to e/b.png has failed; e is there, empty
C18_Witness ==
    /\ wpc = "idle"
    /\ wcall = WCall("rename", <<A_PNG>>, <<E, B_PNG>>)
    /\ wresult = WIo("NotFound")
    /\ FullPath(<<A_PNG>>) \notin DOMAIN fs
    /\ DirExists(fs, FullPath(<<E>>))
    /\ Below(fs, FullPath(<<E>>)) = {}

-----------------------------------------------------------------------------
(* Forward seeks. *)

WaitsHolding(t) == pc[t] = "acquire" /\ call[t].op = "read" /\ Len(held[t]) = 1

\* C20: with callers that keep the handle of read_meta(p) open while they
\* call read(p), no reachable state has all FILE_LIMIT permits held by
\* callers that are each suspended in acquire for a further permit
C20_NoNestedDeadlock ==
    ~ /\ descriptor_counter = 0
      /\ OpenFiles = FILE_LIMIT
      /\ \A t \in Tasks : held[t] # <<>> => WaitsHolding(t)

====
